---- MODULE Spec2Model ----
(***************************************************************************)
(* A model of the Bergfex page parsers                                     *)
(* (custom_components/bergfex/parser.py).                                  *)
(*                                                                         *)
(* A Python str is a sequence of characters.  A printable ASCII character  *)
(* other than the grave accent is the string of that character; tab, line  *)
(* feed, form feed and carriage return are "\t", "\n", "\f" and "\r";      *)
(* every other character is named by its code point, "U+" and four to six  *)
(* upper-case hexadecimal digits: "U+00E9" is e acute, one character.      *)
(*                                                                         *)
(* A parsed page (the BeautifulSoup tree) is a sequence of element nodes   *)
(* in document order; every dt and dd node is a child of the same list     *)
(* element, so they are siblings of each other.                            *)
(***************************************************************************)
EXTENDS Integers, Sequences, FiniteSets, TLC

VARIABLES
    call,    \* the parser entry point the caller invokes
    arg,     \* its input: a page, a date text, or a forecast page and number
    now,     \* position of the wall clock in Clock (datetime.now(tz))
    rets     \* the outcome of every call made so far, oldest first

vars == <<call, arg, now, rets>>

(***************************************************************************)
(* Characters.  CPython classifies a character by its code point, with the *)
(* tables of Unicode 14.0 (Python 3.11).                                   *)
(***************************************************************************)

\* chr(32) .. chr(126), and a space in the place of the grave accent,
\* chr(96), which a string cannot hold
AsciiChars ==
    " !\"#$%&'()*+,-./0123456789:;<=>?@ABCDEFGHIJKLMN"
    \o "OPQRSTUVWXYZ[\\]^_ abcdefghijklmnopqrstuvwxyz{|}~"

HexChars == "0123456789ABCDEF"

\* n in hexadecimal, in at least w digits
RECURSIVE Hex(_, _)
Hex(n, w) ==
    IF n = 0 /\ w <= 0 THEN ""
    ELSE Hex(n \div 16, w - 1)
           \o SubSeq(HexChars, (n % 16) + 1, (n % 16) + 1)

\* chr(n)
Chr(n) ==
    IF n \in 32..126 /\ n # 96 THEN SubSeq(AsciiChars, n - 31, n - 31)
    ELSE IF n = 9 THEN "\t"
    ELSE IF n = 10 THEN "\n"
    ELSE IF n = 12 THEN "\f"
    ELSE IF n = 13 THEN "\r"
    ELSE "U+" \o Hex(n, 4)

\* the value of the hexadecimal numeral h
RECURSIVE HexVal(_)
HexVal(h) ==
    IF h = "" THEN 0
    ELSE 16 * HexVal(SubSeq(h, 1, Len(h) - 1))
           + (CHOOSE k \in 0..15 :
                 SubSeq(HexChars, k + 1, k + 1) = SubSeq(h, Len(h), Len(h)))

\* ord(c)
Ord(c) ==
    IF c = "\t" THEN 9
    ELSE IF c = "\n" THEN 10
    ELSE IF c = "\f" THEN 12
    ELSE IF c = "\r" THEN 13
    ELSE IF Len(c) = 1
    THEN CHOOSE n \in 32..126 :
             n # 96 /\ SubSeq(AsciiChars, n - 31, n - 31) = c
    ELSE HexVal(SubSeq(c, 3, Len(c)))

\* the characters of a sequence of code point ranges <<first, last>>
CharsOf(ranges) ==
    UNION {{Chr(n) : n \in ranges[i][1]..ranges[i][2]} :
              i \in 1..Len(ranges)}

\* Py_UNICODE_ISSPACE: the characters str.strip(), str.split() and \s take
\* as whitespace
Whitespace ==
    {"\t", "\n", "U+000B", "\f", "\r", "U+001C", "U+001D", "U+001E",
     "U+001F", " ", "U+0085", "U+00A0", "U+1680", "U+2000", "U+2001",
     "U+2002", "U+2003", "U+2004", "U+2005", "U+2006", "U+2007", "U+2008",
     "U+2009", "U+200A", "U+2028", "U+2029", "U+202F", "U+205F", "U+3000"}

\* the whitespace int() and float() skip: of the ASCII characters only the
\* ones of C's isspace, so not the separators chr(28) .. chr(31)
NumberWhitespace == Whitespace \ {"U+001C", "U+001D", "U+001E", "U+001F"}

\* the code points of the digits zero (category Nd): the nine digits of
\* the same script follow each
DigitZeros ==
    {48, 1632, 1776, 1984, 2406, 2534, 2662, 2790, 2918, 3046, 3174, 3302,
     3430, 3558, 3664, 3792, 3872, 4160, 4240, 6112, 6160, 6470, 6608, 6784,
     6800, 6992, 7088, 7232, 7248, 42528, 43216, 43264, 43472, 43504, 43600,
     44016, 65296, 66720, 68912, 69734, 69872, 69942, 70096, 70384, 70736,
     70864, 71248, 71360, 71472, 71904, 72016, 72784, 73040, 73120, 92768,
     92864, 93008, 120782, 120792, 120802, 120812, 120822, 123200, 123632,
     125264, 130032}

\* DigitChars[i]: the characters \d, int() and float() take as the decimal
\* digit i - 1
DigitChars == [i \in 1..10 |-> {Chr(z + i - 1) : z \in DigitZeros}]

Digits == {Chr(z + i) : z \in DigitZeros, i \in 0..9}

IsDigit(c) == c \in Digits

DigitVal(c) == (CHOOSE i \in 1..10 : c \in DigitChars[i]) - 1

\* the lower-case mappings <<first, last, step, offset>>: the code points
\* first, first + step, .. last map to themselves plus offset
LowerRanges ==
    <<<<65, 90, 1, 32>>, <<192, 214, 1, 32>>, <<216, 222, 1, 32>>,
      <<256, 302, 2, 1>>, <<306, 310, 2, 1>>, <<313, 327, 2, 1>>,
      <<330, 374, 2, 1>>, <<376, 376, 1, -121>>, <<377, 381, 2, 1>>,
      <<385, 385, 1, 210>>, <<386, 388, 2, 1>>, <<390, 390, 1, 206>>,
      <<391, 391, 1, 1>>, <<393, 394, 1, 205>>, <<395, 395, 1, 1>>,
      <<398, 398, 1, 79>>, <<399, 399, 1, 202>>, <<400, 400, 1, 203>>,
      <<401, 401, 1, 1>>, <<403, 403, 1, 205>>, <<404, 404, 1, 207>>,
      <<406, 406, 1, 211>>, <<407, 407, 1, 209>>, <<408, 408, 1, 1>>,
      <<412, 412, 1, 211>>, <<413, 413, 1, 213>>, <<415, 415, 1, 214>>,
      <<416, 420, 2, 1>>, <<422, 422, 1, 218>>, <<423, 423, 1, 1>>,
      <<425, 425, 1, 218>>, <<428, 428, 1, 1>>, <<430, 430, 1, 218>>,
      <<431, 431, 1, 1>>, <<433, 434, 1, 217>>, <<435, 437, 2, 1>>,
      <<439, 439, 1, 219>>, <<440, 440, 1, 1>>, <<444, 444, 1, 1>>,
      <<452, 452, 1, 2>>, <<453, 453, 1, 1>>, <<455, 455, 1, 2>>,
      <<456, 456, 1, 1>>, <<458, 458, 1, 2>>, <<459, 475, 2, 1>>,
      <<478, 494, 2, 1>>, <<497, 497, 1, 2>>, <<498, 500, 2, 1>>,
      <<502, 502, 1, -97>>, <<503, 503, 1, -56>>, <<504, 542, 2, 1>>,
      <<544, 544, 1, -130>>, <<546, 562, 2, 1>>, <<570, 570, 1, 10795>>,
      <<571, 571, 1, 1>>, <<573, 573, 1, -163>>, <<574, 574, 1, 10792>>,
      <<577, 577, 1, 1>>, <<579, 579, 1, -195>>, <<580, 580, 1, 69>>,
      <<581, 581, 1, 71>>, <<582, 590, 2, 1>>, <<880, 882, 2, 1>>,
      <<886, 886, 1, 1>>, <<895, 895, 1, 116>>, <<902, 902, 1, 38>>,
      <<904, 906, 1, 37>>, <<908, 908, 1, 64>>, <<910, 911, 1, 63>>,
      <<913, 929, 1, 32>>, <<931, 939, 1, 32>>, <<975, 975, 1, 8>>,
      <<984, 1006, 2, 1>>, <<1012, 1012, 1, -60>>, <<1015, 1015, 1, 1>>,
      <<1017, 1017, 1, -7>>, <<1018, 1018, 1, 1>>, <<1021, 1023, 1, -130>>,
      <<1024, 1039, 1, 80>>, <<1040, 1071, 1, 32>>, <<1120, 1152, 2, 1>>,
      <<1162, 1214, 2, 1>>, <<1216, 1216, 1, 15>>, <<1217, 1229, 2, 1>>,
      <<1232, 1326, 2, 1>>, <<1329, 1366, 1, 48>>, <<4256, 4293, 1, 7264>>,
      <<4295, 4295, 1, 7264>>, <<4301, 4301, 1, 7264>>,
      <<5024, 5103, 1, 38864>>, <<5104, 5109, 1, 8>>,
      <<7312, 7354, 1, -3008>>, <<7357, 7359, 1, -3008>>,
      <<7680, 7828, 2, 1>>, <<7838, 7838, 1, -7615>>, <<7840, 7934, 2, 1>>,
      <<7944, 7951, 1, -8>>, <<7960, 7965, 1, -8>>, <<7976, 7983, 1, -8>>,
      <<7992, 7999, 1, -8>>, <<8008, 8013, 1, -8>>, <<8025, 8031, 2, -8>>,
      <<8040, 8047, 1, -8>>, <<8072, 8079, 1, -8>>, <<8088, 8095, 1, -8>>,
      <<8104, 8111, 1, -8>>, <<8120, 8121, 1, -8>>, <<8122, 8123, 1, -74>>,
      <<8124, 8124, 1, -9>>, <<8136, 8139, 1, -86>>, <<8140, 8140, 1, -9>>,
      <<8152, 8153, 1, -8>>, <<8154, 8155, 1, -100>>, <<8168, 8169, 1, -8>>,
      <<8170, 8171, 1, -112>>, <<8172, 8172, 1, -7>>, <<8184, 8185, 1, -128>>,
      <<8186, 8187, 1, -126>>, <<8188, 8188, 1, -9>>,
      <<8486, 8486, 1, -7517>>, <<8490, 8490, 1, -8383>>,
      <<8491, 8491, 1, -8262>>, <<8498, 8498, 1, 28>>, <<8544, 8559, 1, 16>>,
      <<8579, 8579, 1, 1>>, <<9398, 9423, 1, 26>>, <<11264, 11311, 1, 48>>,
      <<11360, 11360, 1, 1>>, <<11362, 11362, 1, -10743>>,
      <<11363, 11363, 1, -3814>>, <<11364, 11364, 1, -10727>>,
      <<11367, 11371, 2, 1>>, <<11373, 11373, 1, -10780>>,
      <<11374, 11374, 1, -10749>>, <<11375, 11375, 1, -10783>>,
      <<11376, 11376, 1, -10782>>, <<11378, 11378, 1, 1>>,
      <<11381, 11381, 1, 1>>, <<11390, 11391, 1, -10815>>,
      <<11392, 11490, 2, 1>>, <<11499, 11501, 2, 1>>, <<11506, 11506, 1, 1>>,
      <<42560, 42604, 2, 1>>, <<42624, 42650, 2, 1>>, <<42786, 42798, 2, 1>>,
      <<42802, 42862, 2, 1>>, <<42873, 42875, 2, 1>>,
      <<42877, 42877, 1, -35332>>, <<42878, 42886, 2, 1>>,
      <<42891, 42891, 1, 1>>, <<42893, 42893, 1, -42280>>,
      <<42896, 42898, 2, 1>>, <<42902, 42920, 2, 1>>,
      <<42922, 42922, 1, -42308>>, <<42923, 42923, 1, -42319>>,
      <<42924, 42924, 1, -42315>>, <<42925, 42925, 1, -42305>>,
      <<42926, 42926, 1, -42308>>, <<42928, 42928, 1, -42258>>,
      <<42929, 42929, 1, -42282>>, <<42930, 42930, 1, -42261>>,
      <<42931, 42931, 1, 928>>, <<42932, 42946, 2, 1>>,
      <<42948, 42948, 1, -48>>, <<42949, 42949, 1, -42307>>,
      <<42950, 42950, 1, -35384>>, <<42951, 42953, 2, 1>>,
      <<42960, 42960, 1, 1>>, <<42966, 42968, 2, 1>>, <<42997, 42997, 1, 1>>,
      <<65313, 65338, 1, 32>>, <<66560, 66599, 1, 40>>,
      <<66736, 66771, 1, 40>>, <<66928, 66938, 1, 39>>,
      <<66940, 66954, 1, 39>>, <<66956, 66962, 1, 39>>,
      <<66964, 66965, 1, 39>>, <<68736, 68786, 1, 64>>,
      <<71840, 71871, 1, 32>>, <<93760, 93791, 1, 32>>,
      <<125184, 125217, 1, 34>>>>

\* the characters str.lower() changes
UpperChars ==
    UNION {{Chr(LowerRanges[i][1] + k * LowerRanges[i][3]) :
               k \in 0..((LowerRanges[i][2] - LowerRanges[i][1])
                            \div LowerRanges[i][3])} :
              i \in 1..Len(LowerRanges)}
      \cup {"U+0130"}

\* c.lower(); the capital I with a dot above is the one character whose
\* lower case is two, i and the combining dot above
LowerChar(c) ==
    IF c = "U+0130" THEN <<"i", "U+0307">>
    ELSE IF c \in UpperChars
    THEN LET o == Ord(c)
             i == CHOOSE i \in 1..Len(LowerRanges) :
                     /\ o \in LowerRanges[i][1]..LowerRanges[i][2]
                     /\ (o - LowerRanges[i][1]) % LowerRanges[i][3] = 0
         IN  <<Chr(o + LowerRanges[i][4])>>
    ELSE <<c>>

\* the characters with the Unicode property Cased
CasedRanges ==
    <<<<65, 90>>, <<97, 122>>, <<170, 170>>, <<181, 181>>, <<186, 186>>,
      <<192, 214>>, <<216, 246>>, <<248, 442>>, <<444, 447>>, <<452, 659>>,
      <<661, 696>>, <<704, 705>>, <<736, 740>>, <<837, 837>>, <<880, 883>>,
      <<886, 887>>, <<890, 893>>, <<895, 895>>, <<902, 902>>, <<904, 906>>,
      <<908, 908>>, <<910, 929>>, <<931, 1013>>, <<1015, 1153>>,
      <<1162, 1327>>, <<1329, 1366>>, <<1376, 1416>>, <<4256, 4293>>,
      <<4295, 4295>>, <<4301, 4301>>, <<4304, 4346>>, <<4349, 4351>>,
      <<5024, 5109>>, <<5112, 5117>>, <<7296, 7304>>, <<7312, 7354>>,
      <<7357, 7359>>, <<7424, 7615>>, <<7680, 7957>>, <<7960, 7965>>,
      <<7968, 8005>>, <<8008, 8013>>, <<8016, 8023>>, <<8025, 8025>>,
      <<8027, 8027>>, <<8029, 8029>>, <<8031, 8061>>, <<8064, 8116>>,
      <<8118, 8124>>, <<8126, 8126>>, <<8130, 8132>>, <<8134, 8140>>,
      <<8144, 8147>>, <<8150, 8155>>, <<8160, 8172>>, <<8178, 8180>>,
      <<8182, 8188>>, <<8305, 8305>>, <<8319, 8319>>, <<8336, 8348>>,
      <<8450, 8450>>, <<8455, 8455>>, <<8458, 8467>>, <<8469, 8469>>,
      <<8473, 8477>>, <<8484, 8484>>, <<8486, 8486>>, <<8488, 8488>>,
      <<8490, 8493>>, <<8495, 8500>>, <<8505, 8505>>, <<8508, 8511>>,
      <<8517, 8521>>, <<8526, 8526>>, <<8544, 8575>>, <<8579, 8580>>,
      <<9398, 9449>>, <<11264, 11492>>, <<11499, 11502>>, <<11506, 11507>>,
      <<11520, 11557>>, <<11559, 11559>>, <<11565, 11565>>, <<42560, 42605>>,
      <<42624, 42653>>, <<42786, 42887>>, <<42891, 42894>>, <<42896, 42954>>,
      <<42960, 42961>>, <<42963, 42963>>, <<42965, 42969>>, <<42997, 42998>>,
      <<43000, 43002>>, <<43824, 43866>>, <<43868, 43880>>, <<43888, 43967>>,
      <<64256, 64262>>, <<64275, 64279>>, <<65313, 65338>>, <<65345, 65370>>,
      <<66560, 66639>>, <<66736, 66771>>, <<66776, 66811>>, <<66928, 66938>>,
      <<66940, 66954>>, <<66956, 66962>>, <<66964, 66965>>, <<66967, 66977>>,
      <<66979, 66993>>, <<66995, 67001>>, <<67003, 67004>>, <<67456, 67456>>,
      <<67459, 67461>>, <<67463, 67504>>, <<67506, 67514>>, <<68736, 68786>>,
      <<68800, 68850>>, <<71840, 71903>>, <<93760, 93823>>,
      <<119808, 119892>>, <<119894, 119964>>, <<119966, 119967>>,
      <<119970, 119970>>, <<119973, 119974>>, <<119977, 119980>>,
      <<119982, 119993>>, <<119995, 119995>>, <<119997, 120003>>,
      <<120005, 120069>>, <<120071, 120074>>, <<120077, 120084>>,
      <<120086, 120092>>, <<120094, 120121>>, <<120123, 120126>>,
      <<120128, 120132>>, <<120134, 120134>>, <<120138, 120144>>,
      <<120146, 120485>>, <<120488, 120512>>, <<120514, 120538>>,
      <<120540, 120570>>, <<120572, 120596>>, <<120598, 120628>>,
      <<120630, 120654>>, <<120656, 120686>>, <<120688, 120712>>,
      <<120714, 120744>>, <<120746, 120770>>, <<120772, 120779>>,
      <<122624, 122633>>, <<122635, 122654>>, <<125184, 125251>>,
      <<127280, 127305>>, <<127312, 127337>>, <<127344, 127369>>>>

Cased == CharsOf(CasedRanges)

\* the characters with the Unicode property Case_Ignorable
CaseIgnorableRanges ==
    <<<<39, 39>>, <<46, 46>>, <<58, 58>>, <<94, 94>>, <<96, 96>>,
      <<168, 168>>, <<173, 173>>, <<175, 175>>, <<180, 180>>, <<183, 184>>,
      <<688, 879>>, <<884, 885>>, <<890, 890>>, <<900, 901>>, <<903, 903>>,
      <<1155, 1161>>, <<1369, 1369>>, <<1375, 1375>>, <<1425, 1469>>,
      <<1471, 1471>>, <<1473, 1474>>, <<1476, 1477>>, <<1479, 1479>>,
      <<1524, 1524>>, <<1536, 1541>>, <<1552, 1562>>, <<1564, 1564>>,
      <<1600, 1600>>, <<1611, 1631>>, <<1648, 1648>>, <<1750, 1757>>,
      <<1759, 1768>>, <<1770, 1773>>, <<1807, 1807>>, <<1809, 1809>>,
      <<1840, 1866>>, <<1958, 1968>>, <<2027, 2037>>, <<2042, 2042>>,
      <<2045, 2045>>, <<2070, 2093>>, <<2137, 2139>>, <<2184, 2184>>,
      <<2192, 2193>>, <<2200, 2207>>, <<2249, 2306>>, <<2362, 2362>>,
      <<2364, 2364>>, <<2369, 2376>>, <<2381, 2381>>, <<2385, 2391>>,
      <<2402, 2403>>, <<2417, 2417>>, <<2433, 2433>>, <<2492, 2492>>,
      <<2497, 2500>>, <<2509, 2509>>, <<2530, 2531>>, <<2558, 2558>>,
      <<2561, 2562>>, <<2620, 2620>>, <<2625, 2626>>, <<2631, 2632>>,
      <<2635, 2637>>, <<2641, 2641>>, <<2672, 2673>>, <<2677, 2677>>,
      <<2689, 2690>>, <<2748, 2748>>, <<2753, 2757>>, <<2759, 2760>>,
      <<2765, 2765>>, <<2786, 2787>>, <<2810, 2815>>, <<2817, 2817>>,
      <<2876, 2876>>, <<2879, 2879>>, <<2881, 2884>>, <<2893, 2893>>,
      <<2901, 2902>>, <<2914, 2915>>, <<2946, 2946>>, <<3008, 3008>>,
      <<3021, 3021>>, <<3072, 3072>>, <<3076, 3076>>, <<3132, 3132>>,
      <<3134, 3136>>, <<3142, 3144>>, <<3146, 3149>>, <<3157, 3158>>,
      <<3170, 3171>>, <<3201, 3201>>, <<3260, 3260>>, <<3263, 3263>>,
      <<3270, 3270>>, <<3276, 3277>>, <<3298, 3299>>, <<3328, 3329>>,
      <<3387, 3388>>, <<3393, 3396>>, <<3405, 3405>>, <<3426, 3427>>,
      <<3457, 3457>>, <<3530, 3530>>, <<3538, 3540>>, <<3542, 3542>>,
      <<3633, 3633>>, <<3636, 3642>>, <<3654, 3662>>, <<3761, 3761>>,
      <<3764, 3772>>, <<3782, 3782>>, <<3784, 3789>>, <<3864, 3865>>,
      <<3893, 3893>>, <<3895, 3895>>, <<3897, 3897>>, <<3953, 3966>>,
      <<3968, 3972>>, <<3974, 3975>>, <<3981, 3991>>, <<3993, 4028>>,
      <<4038, 4038>>, <<4141, 4144>>, <<4146, 4151>>, <<4153, 4154>>,
      <<4157, 4158>>, <<4184, 4185>>, <<4190, 4192>>, <<4209, 4212>>,
      <<4226, 4226>>, <<4229, 4230>>, <<4237, 4237>>, <<4253, 4253>>,
      <<4348, 4348>>, <<4957, 4959>>, <<5906, 5908>>, <<5938, 5939>>,
      <<5970, 5971>>, <<6002, 6003>>, <<6068, 6069>>, <<6071, 6077>>,
      <<6086, 6086>>, <<6089, 6099>>, <<6103, 6103>>, <<6109, 6109>>,
      <<6155, 6159>>, <<6211, 6211>>, <<6277, 6278>>, <<6313, 6313>>,
      <<6432, 6434>>, <<6439, 6440>>, <<6450, 6450>>, <<6457, 6459>>,
      <<6679, 6680>>, <<6683, 6683>>, <<6742, 6742>>, <<6744, 6750>>,
      <<6752, 6752>>, <<6754, 6754>>, <<6757, 6764>>, <<6771, 6780>>,
      <<6783, 6783>>, <<6823, 6823>>, <<6832, 6862>>, <<6912, 6915>>,
      <<6964, 6964>>, <<6966, 6970>>, <<6972, 6972>>, <<6978, 6978>>,
      <<7019, 7027>>, <<7040, 7041>>, <<7074, 7077>>, <<7080, 7081>>,
      <<7083, 7085>>, <<7142, 7142>>, <<7144, 7145>>, <<7149, 7149>>,
      <<7151, 7153>>, <<7212, 7219>>, <<7222, 7223>>, <<7288, 7293>>,
      <<7376, 7378>>, <<7380, 7392>>, <<7394, 7400>>, <<7405, 7405>>,
      <<7412, 7412>>, <<7416, 7417>>, <<7468, 7530>>, <<7544, 7544>>,
      <<7579, 7679>>, <<8125, 8125>>, <<8127, 8129>>, <<8141, 8143>>,
      <<8157, 8159>>, <<8173, 8175>>, <<8189, 8190>>, <<8203, 8207>>,
      <<8216, 8217>>, <<8228, 8228>>, <<8231, 8231>>, <<8234, 8238>>,
      <<8288, 8292>>, <<8294, 8303>>, <<8305, 8305>>, <<8319, 8319>>,
      <<8336, 8348>>, <<8400, 8432>>, <<11388, 11389>>, <<11503, 11505>>,
      <<11631, 11631>>, <<11647, 11647>>, <<11744, 11775>>, <<11823, 11823>>,
      <<12293, 12293>>, <<12330, 12333>>, <<12337, 12341>>, <<12347, 12347>>,
      <<12441, 12446>>, <<12540, 12542>>, <<40981, 40981>>, <<42232, 42237>>,
      <<42508, 42508>>, <<42607, 42610>>, <<42612, 42621>>, <<42623, 42623>>,
      <<42652, 42655>>, <<42736, 42737>>, <<42752, 42785>>, <<42864, 42864>>,
      <<42888, 42890>>, <<42994, 42996>>, <<43000, 43001>>, <<43010, 43010>>,
      <<43014, 43014>>, <<43019, 43019>>, <<43045, 43046>>, <<43052, 43052>>,
      <<43204, 43205>>, <<43232, 43249>>, <<43263, 43263>>, <<43302, 43309>>,
      <<43335, 43345>>, <<43392, 43394>>, <<43443, 43443>>, <<43446, 43449>>,
      <<43452, 43453>>, <<43471, 43471>>, <<43493, 43494>>, <<43561, 43566>>,
      <<43569, 43570>>, <<43573, 43574>>, <<43587, 43587>>, <<43596, 43596>>,
      <<43632, 43632>>, <<43644, 43644>>, <<43696, 43696>>, <<43698, 43700>>,
      <<43703, 43704>>, <<43710, 43711>>, <<43713, 43713>>, <<43741, 43741>>,
      <<43756, 43757>>, <<43763, 43764>>, <<43766, 43766>>, <<43867, 43871>>,
      <<43881, 43883>>, <<44005, 44005>>, <<44008, 44008>>, <<44013, 44013>>,
      <<64286, 64286>>, <<64434, 64450>>, <<65024, 65039>>, <<65043, 65043>>,
      <<65056, 65071>>, <<65106, 65106>>, <<65109, 65109>>, <<65279, 65279>>,
      <<65287, 65287>>, <<65294, 65294>>, <<65306, 65306>>, <<65342, 65342>>,
      <<65344, 65344>>, <<65392, 65392>>, <<65438, 65439>>, <<65507, 65507>>,
      <<65529, 65531>>, <<66045, 66045>>, <<66272, 66272>>, <<66422, 66426>>,
      <<67456, 67461>>, <<67463, 67504>>, <<67506, 67514>>, <<68097, 68099>>,
      <<68101, 68102>>, <<68108, 68111>>, <<68152, 68154>>, <<68159, 68159>>,
      <<68325, 68326>>, <<68900, 68903>>, <<69291, 69292>>, <<69446, 69456>>,
      <<69506, 69509>>, <<69633, 69633>>, <<69688, 69702>>, <<69744, 69744>>,
      <<69747, 69748>>, <<69759, 69761>>, <<69811, 69814>>, <<69817, 69818>>,
      <<69821, 69821>>, <<69826, 69826>>, <<69837, 69837>>, <<69888, 69890>>,
      <<69927, 69931>>, <<69933, 69940>>, <<70003, 70003>>, <<70016, 70017>>,
      <<70070, 70078>>, <<70089, 70092>>, <<70095, 70095>>, <<70191, 70193>>,
      <<70196, 70196>>, <<70198, 70199>>, <<70206, 70206>>, <<70367, 70367>>,
      <<70371, 70378>>, <<70400, 70401>>, <<70459, 70460>>, <<70464, 70464>>,
      <<70502, 70508>>, <<70512, 70516>>, <<70712, 70719>>, <<70722, 70724>>,
      <<70726, 70726>>, <<70750, 70750>>, <<70835, 70840>>, <<70842, 70842>>,
      <<70847, 70848>>, <<70850, 70851>>, <<71090, 71093>>, <<71100, 71101>>,
      <<71103, 71104>>, <<71132, 71133>>, <<71219, 71226>>, <<71229, 71229>>,
      <<71231, 71232>>, <<71339, 71339>>, <<71341, 71341>>, <<71344, 71349>>,
      <<71351, 71351>>, <<71453, 71455>>, <<71458, 71461>>, <<71463, 71467>>,
      <<71727, 71735>>, <<71737, 71738>>, <<71995, 71996>>, <<71998, 71998>>,
      <<72003, 72003>>, <<72148, 72151>>, <<72154, 72155>>, <<72160, 72160>>,
      <<72193, 72202>>, <<72243, 72248>>, <<72251, 72254>>, <<72263, 72263>>,
      <<72273, 72278>>, <<72281, 72283>>, <<72330, 72342>>, <<72344, 72345>>,
      <<72752, 72758>>, <<72760, 72765>>, <<72767, 72767>>, <<72850, 72871>>,
      <<72874, 72880>>, <<72882, 72883>>, <<72885, 72886>>, <<73009, 73014>>,
      <<73018, 73018>>, <<73020, 73021>>, <<73023, 73029>>, <<73031, 73031>>,
      <<73104, 73105>>, <<73109, 73109>>, <<73111, 73111>>, <<73459, 73460>>,
      <<78896, 78904>>, <<92912, 92916>>, <<92976, 92982>>, <<92992, 92995>>,
      <<94031, 94031>>, <<94095, 94111>>, <<94176, 94177>>, <<94179, 94180>>,
      <<110576, 110579>>, <<110581, 110587>>, <<110589, 110590>>,
      <<113821, 113822>>, <<113824, 113827>>, <<118528, 118573>>,
      <<118576, 118598>>, <<119143, 119145>>, <<119155, 119170>>,
      <<119173, 119179>>, <<119210, 119213>>, <<119362, 119364>>,
      <<121344, 121398>>, <<121403, 121452>>, <<121461, 121461>>,
      <<121476, 121476>>, <<121499, 121503>>, <<121505, 121519>>,
      <<122880, 122886>>, <<122888, 122904>>, <<122907, 122913>>,
      <<122915, 122916>>, <<122918, 122922>>, <<123184, 123197>>,
      <<123566, 123566>>, <<123628, 123631>>, <<125136, 125142>>,
      <<125252, 125259>>, <<127995, 127999>>, <<917505, 917505>>,
      <<917536, 917631>>, <<917760, 917999>>>>

CaseIgnorable == CharsOf(CaseIgnorableRanges)

\* whether the capital sigma at index i of s ends a word: a cased character
\* comes before it and none after it, case-ignorable characters skipped
FinalSigma(s, i) ==
    LET before == {j \in 1..(i - 1) : s[j] \notin CaseIgnorable}
        after == {j \in (i + 1)..Len(s) : s[j] \notin CaseIgnorable}
    IN  /\ before # {}
        /\ s[CHOOSE j \in before : \A k \in before : k <= j] \in Cased
        /\ \/ after = {}
           \/ s[CHOOSE j \in after : \A k \in after : j <= k] \notin Cased

\* str.lower() from index i on: a capital sigma ("U+03A3") that ends a
\* word becomes the final small sigma ("U+03C2")
RECURSIVE LowerFrom(_, _)
LowerFrom(s, i) ==
    IF i > Len(s) THEN <<>>
    ELSE (IF s[i] = "U+03A3" /\ FinalSigma(s, i) THEN <<"U+03C2">>
          ELSE LowerChar(s[i])) \o LowerFrom(s, i + 1)

\* str.lower()
Lower(s) == LowerFrom(s, 1)

(***************************************************************************)
(* Python str operations                                                   *)
(***************************************************************************)

RECURSIVE LStrip(_)
LStrip(s) ==
    IF s # <<>> /\ Head(s) \in Whitespace THEN LStrip(Tail(s)) ELSE s

RECURSIVE RStrip(_)
RStrip(s) ==
    IF s # <<>> /\ s[Len(s)] \in Whitespace
    THEN RStrip(SubSeq(s, 1, Len(s) - 1))
    ELSE s

\* str.strip()
Strip(s) == RStrip(LStrip(s))

\* sub in s
Contains(sub, s) ==
    \E i \in 1..(Len(s) - Len(sub) + 1) : SubSeq(s, i, i + Len(sub) - 1) = sub

\* s.startswith(p)
StartsWith(s, p) == Len(p) <= Len(s) /\ SubSeq(s, 1, Len(p)) = p

\* whether sub occurs in s at index i
OccursAt(sub, s, i) ==
    i + Len(sub) - 1 <= Len(s) /\ SubSeq(s, i, i + Len(sub) - 1) = sub

\* s.replace(old, new), old not empty: leftmost occurrences, not overlapping
RECURSIVE Replace(_, _, _)
Replace(s, old, new) ==
    IF s = <<>> THEN <<>>
    ELSE IF OccursAt(old, s, 1)
         THEN new \o Replace(SubSeq(s, Len(old) + 1, Len(s)), old, new)
         ELSE <<Head(s)>> \o Replace(Tail(s), old, new)

\* the number of characters from index i on that are decimal digits
RECURSIVE DigitRun(_, _)
DigitRun(s, i) ==
    IF i <= Len(s) /\ IsDigit(s[i]) THEN 1 + DigitRun(s, i + 1) ELSE 0

\* the number of characters from index i on that are whitespace (\s*)
RECURSIVE SpaceRun(_, _)
SpaceRun(s, i) ==
    IF i <= Len(s) /\ s[i] \in Whitespace THEN 1 + SpaceRun(s, i + 1) ELSE 0

\* the value of a string of decimal digits
RECURSIVE DecVal(_)
DecVal(s) ==
    IF s = <<>> THEN 0
    ELSE 10 * DecVal(SubSeq(s, 1, Len(s) - 1)) + DigitVal(s[Len(s)])

\* the smallest member of a non-empty set of integers
Least(S) == CHOOSE x \in S : \A y \in S : x <= y

\* s.split(): the maximal runs of characters that are not whitespace
RECURSIVE Split(_)
Split(s) ==
    LET t == LStrip(s)
        n == IF \E i \in 1..Len(t) : t[i] \in Whitespace
             THEN Least({i \in 1..Len(t) : t[i] \in Whitespace}) - 1
             ELSE Len(t)
    IN  IF t = <<>> THEN <<>>
        ELSE <<SubSeq(t, 1, n)>> \o Split(SubSeq(t, n + 1, Len(t)))

\* re.findall(r"[...]+", s): the maximal runs of characters of class cls
RECURSIVE FindAll(_, _)
FindAll(cls, s) ==
    LET starts == {i \in 1..Len(s) : s[i] \in cls}
        b == Least(starts)
        stops == {i \in b..Len(s) : s[i] \notin cls}
        e == IF stops = {} THEN Len(s) ELSE Least(stops) - 1
    IN  IF starts = {} THEN <<>>
        ELSE <<SubSeq(s, b, e)>> \o FindAll(cls, SubSeq(s, e + 1, Len(s)))

VON == <<"v", "o", "n">>
OF == <<"o", "f">>
KM == <<"k", "m">>
CM == <<"c", "m">>

\* re.split(r"von|of", s)
RECURSIVE ReSplitVonOf(_)
ReSplitVonOf(s) ==
    LET hits == {i \in 1..Len(s) : OccursAt(VON, s, i) \/ OccursAt(OF, s, i)}
        i == Least(hits)
        n == IF OccursAt(VON, s, i) THEN Len(VON) ELSE Len(OF)
    IN  IF hits = {} THEN <<s>>
        ELSE <<SubSeq(s, 1, i - 1)>> \o ReSplitVonOf(SubSeq(s, i + n, Len(s)))

(***************************************************************************)
(* Python values.  A dictionary value carries its type, so that values of  *)
(* different types can be compared the way Python's == compares them:      *)
(* unequal.                                                                *)
(***************************************************************************)

StrV(s) == [t |-> "str", v |-> s]
IntV(n) == [t |-> "int", v |-> n]
FloatV(m, e) == [t |-> "float", v |-> <<m, e>>]
DateV(d) == [t |-> "datetime", v |-> d]
None == [t |-> "None", v |-> <<>>]

Return(v) == [kind |-> "return", value |-> v]
Raise(e) == [kind |-> "raise", value |-> e]

\* int(s): optional whitespace around an optional sign and decimal digits,
\* single underscores allowed between digits, at most 4300 digits
\* (sys.get_int_max_str_digits()); ValueError otherwise
IntTrim(s, kept) ==
    LET t == IF kept = {} THEN <<>>
             ELSE SubSeq(s, Least(kept),
                         CHOOSE j \in kept : \A k \in kept : k <= j)
    IN  IF t # <<>> /\ Head(t) \in {"+", "-"} THEN Tail(t) ELSE t

IntBody(s) == IntTrim(s, {i \in 1..Len(s) : s[i] \notin NumberWhitespace})

IntBodyOk(b) ==
    /\ b # <<>>
    /\ \A i \in 1..Len(b) : IsDigit(b[i]) \/ b[i] = "_"
    /\ IsDigit(b[1]) /\ IsDigit(b[Len(b)])
    /\ \A i \in 1..(Len(b) - 1) : ~(b[i] = "_" /\ b[i + 1] = "_")
    /\ Len(SelectSeq(b, IsDigit)) <= 4300

IntOk(s) == IntBodyOk(IntBody(s))

IntVal(s) ==
    LET m == DecVal(SelectSeq(IntBody(s), IsDigit))
    IN  IF \E i \in 1..Len(s) : s[i] = "-" THEN 0 - m ELSE m

PyInt(s) == IF IntOk(s) THEN Return(IntVal(s)) ELSE Raise("ValueError")

(***************************************************************************)
(* float(s) for s made of decimal digits and dots only (a token of         *)
(* [\d,.]+ with its commas replaced): at most one dot and at least one     *)
(* digit, ValueError otherwise.  The value is the IEEE 754 double nearest  *)
(* to the decimal number, ties to the even mantissa.  FloatV(m, e) is the  *)
(* double m * 2^e: m is its odd mantissa in binary digits, most            *)
(* significant first, and <<>> for 0.0; FloatV(<<1>>, 1024) is inf.        *)
(***************************************************************************)

\* the values of the decimal digits s
DigitVals(s) == SubSeq([i \in 1..Len(s) |-> DigitVal(s[i])], 1, Len(s))

FloatOk(s) ==
    /\ Cardinality({i \in 1..Len(s) : s[i] = "."}) <= 1
    /\ \E i \in 1..Len(s) : IsDigit(s[i])

\* the natural number with the decimal digits ds halved: a digit leaves
\* its remainder to the next digit
Halve(ds) ==
    SubSeq([i \in 1..Len(ds) |->
               (10 * (IF i > 1 THEN ds[i - 1] % 2 ELSE 0) + ds[i]) \div 2],
           1, Len(ds))

\* the natural number with the decimal digits ds # <<>> divided by 2^n: the
\* decimal digits of the quotient and the n binary digits of the remainder,
\* the least significant first
RECURSIVE DivBits(_, _)
DivBits(ds, n) ==
    IF n = 0 THEN [bits |-> <<>>, quot |-> ds]
    ELSE IF n = 1 THEN [bits |-> <<ds[Len(ds)] % 2>>, quot |-> Halve(ds)]
    ELSE LET low == DivBits(ds, n \div 2)
             high == DivBits(low.quot, n - (n \div 2))
         IN  [bits |-> low.bits \o high.bits, quot |-> high.quot]

\* the fraction with the decimal digits ds doubled: its digits and the
\* carry into the units; a digit carries when it is 5 or more
Twice(ds) ==
    [carry |-> IF ds # <<>> /\ ds[1] >= 5 THEN 1 ELSE 0,
     digits |-> SubSeq([i \in 1..Len(ds) |->
                          (2 * ds[i]
                             + (IF i < Len(ds) /\ ds[i + 1] >= 5 THEN 1
                                ELSE 0)) % 10],
                       1, Len(ds))]

\* the first n binary digits of the fraction with the decimal digits ds,
\* and the decimal digits of what is left of it
RECURSIVE FracBits(_, _)
FracBits(ds, n) ==
    IF n = 0 THEN [bits |-> <<>>, rest |-> ds]
    ELSE IF n = 1
    THEN [bits |-> <<Twice(ds).carry>>, rest |-> Twice(ds).digits]
    ELSE LET high == FracBits(ds, n \div 2)
             low == FracBits(high.rest, n - (n \div 2))
         IN  [bits |-> high.bits \o low.bits, rest |-> low.rest]

\* the binary number bits plus one
Inc(bits) ==
    LET zeros == {i \in 1..Len(bits) : bits[i] = 0}
        z == IF zeros = {} THEN 0
             ELSE CHOOSE j \in zeros : \A k \in zeros : k <= j
    IN  SubSeq(bits, 1, z - 1) \o <<1>> \o [i \in 1..(Len(bits) - z) |-> 0]

MANT_DIG == 53
MIN_EXP == -1074
MAX_EXP == 1024

\* the double bits * 2^e with its mantissa made odd; inf from 2^MAX_EXP on
Double(bits, e) ==
    LET ones == {i \in 1..Len(bits) : bits[i] = 1}
        first == Least(ones)
        last == CHOOSE j \in ones : \A k \in ones : k <= j
    IN  IF ones = {} THEN FloatV(<<>>, 0)
        ELSE IF e + Len(bits) - first >= MAX_EXP THEN FloatV(<<1>>, MAX_EXP)
        ELSE FloatV(SubSeq(bits, first, last), e + Len(bits) - last)

\* the binary digits, the most significant first and from the first one on,
\* of the natural number with the decimal digits ds; 10^n < 2^(4n)
IntBits(ds) ==
    LET lsb == IF ds = <<>> THEN <<>> ELSE DivBits(ds, 4 * Len(ds)).bits
        ones == {i \in 1..Len(lsb) : lsb[i] = 1}
        len == IF ones = {} THEN 0
               ELSE CHOOSE j \in ones : \A k \in ones : k <= j
    IN  SubSeq([i \in 1..len |-> lsb[len + 1 - i]], 1, len)

\* the binary digits all, of which the last stands for 2^(cut - 1) or
\* less, and the decimal digits rest of what follows them, rounded to the
\* first keep binary digits: up when what is dropped is more than half of
\* the last digit kept, or is half of it and that digit is odd
RoundBits(all, rest, keep, cut) ==
    LET m == SubSeq(all, 1, keep)
        half == all[keep + 1] = 1
        more == \/ \E i \in (keep + 2)..Len(all) : all[i] = 1
                \/ \E i \in 1..Len(rest) : rest[i] # 0
        odd == keep > 0 /\ all[keep] = 1
    IN  Double(IF half /\ (more \/ odd) THEN Inc(m) ELSE m, cut)

\* the double nearest to the integer with the binary digits ib plus the
\* fraction whose first binary digits are f1.bits and whose remaining
\* decimal digits are f1.rest
RoundFrom(ib, f1) ==
    LET n1 == Len(f1.bits)
        lead == {i \in 1..n1 : f1.bits[i] = 1}
        \* the exponent of the leading binary digit
        top == IF ib # <<>> THEN Len(ib) - 1
               ELSE IF lead # {} THEN 0 - Least(lead)
               ELSE MIN_EXP - 2
        \* the exponent of the last binary digit the mantissa holds
        cut == IF top - (MANT_DIG - 1) > MIN_EXP THEN top - (MANT_DIG - 1)
               ELSE MIN_EXP
        f2 == FracBits(f1.rest, IF 1 - cut > n1 THEN 1 - cut - n1 ELSE 0)
    IN  RoundBits(ib \o f1.bits \o f2.bits, f2.rest, Len(ib) - cut, cut)

\* the double nearest to the integer with the binary digits ib plus the
\* fraction with the decimal digits frac.  When the integer is 0, the
\* fraction's first binary digits are taken first, enough of them to hold
\* its first one: 10^-n > 2^-(4n)
Nearest(ib, frac) ==
    LET nonzero == {i \in 1..Len(frac) : frac[i] # 0}
        nz == IF nonzero = {} THEN 0 ELSE Least(nonzero)
    IN  RoundFrom(ib, FracBits(frac, IF ib # <<>> THEN 0
                                     ELSE IF 4 * nz < 1 - MIN_EXP THEN 4 * nz
                                     ELSE 1 - MIN_EXP))

FloatVal(s) ==
    LET dots == {i \in 1..Len(s) : s[i] = "."}
        d == IF dots = {} THEN Len(s) + 1 ELSE Least(dots)
    IN  Nearest(IntBits(DigitVals(SubSeq(s, 1, d - 1))),
                DigitVals(SubSeq(s, d + 1, Len(s))))

PyFloat(s) == IF FloatOk(s) THEN Return(FloatVal(s)) ELSE Raise("ValueError")

(***************************************************************************)
(* datetime                                                                *)
(***************************************************************************)

TZ == "Europe/Paris"

IsLeap(y) == (y % 4 = 0 /\ y % 100 # 0) \/ y % 400 = 0

DaysInMonth(y, m) ==
    IF m = 2 THEN (IF IsLeap(y) THEN 29 ELSE 28)
    ELSE IF m \in {4, 6, 9, 11} THEN 30 ELSE 31

\* the days of year y before the first of month m
RECURSIVE DaysBeforeMonth(_, _)
DaysBeforeMonth(y, m) ==
    IF m <= 1 THEN 0 ELSE DaysBeforeMonth(y, m - 1) + DaysInMonth(y, m - 1)

\* date.toordinal(): 1 for 0001-01-01
ToOrdinal(y, m, d) ==
    LET p == y - 1
    IN  365 * p + (p \div 4) - (p \div 100) + (p \div 400)
          + DaysBeforeMonth(y, m) + d

DateOk(y, m, d) ==
    /\ y \in 1..9999
    /\ m \in 1..12
    /\ d \in 1..DaysInMonth(y, m)

TimeOk(h, mi) == h \in 0..23 /\ mi \in 0..59

DateTime(y, m, d, h, mi, s, us) ==
    [year |-> y, month |-> m, day |-> d, hour |-> h, minute |-> mi,
     second |-> s, microsecond |-> us, tzinfo |-> TZ]

\* dt - timedelta(days=1): the same wall time on the day before
MinusOneDay(dt) ==
    IF dt.day > 1 THEN [dt EXCEPT !.day = dt.day - 1]
    ELSE IF dt.month > 1
         THEN [dt EXCEPT !.month = dt.month - 1,
                         !.day = DaysInMonth(dt.year, dt.month - 1)]
         ELSE [dt EXCEPT !.year = dt.year - 1, !.month = 12, !.day = 31]

\* a > b + timedelta(days=n), both aware with the same tzinfo: the wall
\* times are compared
SecondOfDay(dt) == (dt.hour * 60 + dt.minute) * 60 + dt.second

LaterThanPlusDays(a, b, n) ==
    LET da == ToOrdinal(a.year, a.month, a.day)
        db == ToOrdinal(b.year, b.month, b.day) + n
    IN  \/ da > db
        \/ da = db /\ SecondOfDay(a) > SecondOfDay(b)
        \/ da = db /\ SecondOfDay(a) = SecondOfDay(b)
                   /\ a.microsecond > b.microsecond

(***************************************************************************)
(* parse_bergfex_datetime                                                  *)
(***************************************************************************)

TodayWords == {<<"a", "u", "j", "o", "u", "r", "d">>,
               <<"t", "o", "d", "a", "y">>,
               <<"h", "e", "u", "t", "e">>}

YesterdayWords == {<<"h", "i", "e", "r">>,
                   <<"y", "e", "s", "t", "e", "r", "d", "a", "y">>,
                   <<"g", "e", "s", "t", "e", "r", "n">>}

\* the character of s at index i, "" past either end
At(s, i) == IF i \in 1..Len(s) THEN s[i] ELSE ""

\* (\d{1,2}):(\d{2}) matches at index i: one or two digits that no digit
\* follows, a colon, two digits
TimeAt(s, i) ==
    /\ DigitRun(s, i) \in {1, 2}
    /\ At(s, i + DigitRun(s, i)) = ":"
    /\ DigitRun(s, i + DigitRun(s, i) + 1) >= 2

\* the groups of (\d{1,2}):(\d{2}) matched at index i
TimeGroups(s, i) ==
    LET n == DigitRun(s, i)
    IN  [hour |-> SubSeq(s, i, i + n - 1),
         minute |-> SubSeq(s, i + n + 1, i + n + 2)]

\* re.search(r"(\d{1,2}):(\d{2})", s): the leftmost match
SearchTime(s) ==
    LET hits == {i \in 1..Len(s) : TimeAt(s, i)}
    IN  IF hits = {} THEN [ok |-> FALSE]
        ELSE [ok |-> TRUE, g |-> TimeGroups(s, Least(hits))]

\* (?:,|\.)?\s*(\d{1,2}):(\d{2}) from index q: the index of the hour, 0 when
\* there is no match
TailAt(s, q) ==
    LET q1 == IF At(s, q) \in {",", "."} THEN q + 1 ELSE q
        r == q1 + SpaceRun(s, q1)
    IN  IF TimeAt(s, r) THEN r ELSE 0

\* (\d{1,2})\.(\d{1,2})\.(?:\s*(\d{4}))?(?:,|\.)?\s*(\d{1,2}):(\d{2}) at
\* index i.  The year group is tried first and given up when the rest does
\* not match after it.
DateAt(s, i) ==
    LET dl == DigitRun(s, i)
        j == i + dl + 1
        ml == DigitRun(s, j)
        p == j + ml + 1
        y == p + SpaceRun(s, p)
        withYear == DigitRun(s, y) >= 4 /\ TailAt(s, y + 4) # 0
        r == IF withYear THEN TailAt(s, y + 4) ELSE TailAt(s, p)
    IN  IF /\ dl \in {1, 2} /\ At(s, i + dl) = "."
           /\ ml \in {1, 2} /\ At(s, j + ml) = "."
           /\ r # 0
        THEN [ok |-> TRUE,
              day |-> SubSeq(s, i, i + dl - 1),
              month |-> SubSeq(s, j, j + ml - 1),
              year |-> IF withYear THEN SubSeq(s, y, y + 3) ELSE <<>>,
              time |-> TimeGroups(s, r)]
        ELSE [ok |-> FALSE]

\* re.search of the dd.mm.(yyyy), hh:mm pattern: the leftmost match
SearchDate(s) ==
    LET hits == {i \in 1..Len(s) : DateAt(s, i).ok}
    IN  IF hits = {} THEN [ok |-> FALSE] ELSE DateAt(s, Least(hits))

ROLLBACK_DAYS == 180

\* dt.replace(hour=h, minute=mi, second=0, microsecond=0)
ReplaceTime(dt, h, mi) ==
    IF TimeOk(h, mi)
    THEN Return(DateV([dt EXCEPT !.hour = h, !.minute = mi,
                                 !.second = 0, !.microsecond = 0]))
    ELSE Raise("ValueError")

\* AbsoluteDate without the test that no year was written: a written year
\* is rolled back too
AbsoluteDate_RollsWrittenYear(m, nw) ==
    LET day == DecVal(m.day)
        month == DecVal(m.month)
        year == IF m.year # <<>> THEN DecVal(m.year) ELSE nw.year
        hour == DecVal(m.time.hour)
        minute == DecVal(m.time.minute)
        result == DateTime(year, month, day, hour, minute, 0, 0)
    IN  IF ~(DateOk(year, month, day) /\ TimeOk(hour, minute))
        THEN Return(None)
        ELSE IF LaterThanPlusDays(result, nw, ROLLBACK_DAYS)
        THEN (IF DateOk(year - 1, month, day)
              THEN Return(DateV([result EXCEPT !.year = year - 1]))
              ELSE Return(None))
        ELSE Return(DateV(result))

\* the try block of the dd.mm.(yyyy) branch: the timestamp, or None after
\* the ValueError of an invalid date (also one the roll-back produces)
AbsoluteDate(m, nw) ==
    LET day == DecVal(m.day)
        month == DecVal(m.month)
        year == IF m.year # <<>> THEN DecVal(m.year) ELSE nw.year
        hour == DecVal(m.time.hour)
        minute == DecVal(m.time.minute)
        result == DateTime(year, month, day, hour, minute, 0, 0)
    IN  IF ~(DateOk(year, month, day) /\ TimeOk(hour, minute))
        THEN Return(None)
        ELSE IF m.year = <<>> /\ LaterThanPlusDays(result, nw, ROLLBACK_DAYS)
        THEN (IF DateOk(year - 1, month, day)
              THEN Return(DateV([result EXCEPT !.year = year - 1]))
              ELSE Return(None))
        ELSE Return(DateV(result))

\* the branches of parse_bergfex_datetime for the stripped and lowered
\* text s, with the time match t and the date match m of s
DateBranches(s, t, m, nw) ==
    IF (\E w \in TodayWords : StartsWith(s, w)) /\ t.ok
    THEN ReplaceTime(nw, DecVal(t.g.hour), DecVal(t.g.minute))
    ELSE IF (\E w \in YesterdayWords : StartsWith(s, w)) /\ t.ok
    THEN ReplaceTime(MinusOneDay(nw), DecVal(t.g.hour), DecVal(t.g.minute))
    ELSE IF m.ok THEN AbsoluteDate(m, nw)
    ELSE Return(None)

parse_bergfex_datetime(date_str, nw) ==
    LET Parsed(s) == DateBranches(s, SearchTime(s), SearchDate(s), nw)
    IN  IF date_str = <<>> THEN Return(None)
        ELSE Parsed(Lower(Strip(date_str)))

(***************************************************************************)
(* The parsed page.  A node is [tag, class, text]; text is the node's only *)
(* child, so that its .string and its .text are the same.                  *)
(***************************************************************************)

Node(tag, class, text) == [tag |-> tag, class |-> class, text |-> text]

\* LABELS[category]: the variants of a label, in the order of the list
\* (French, English, German)
LABELS ==
    [
     snow_condition |-> <<
        \* (U+00C9)tat de la neige
        <<"U+00C9", "t", "a", "t", " ", "d", "e", " ", "l", "a", " ", "n",
          "e", "i", "g", "e">>,
        \* Snow condition
        <<"S", "n", "o", "w", " ", "c", "o", "n", "d", "i", "t", "i", "o",
          "n">>,
        \* Schneezustand
        <<"S", "c", "h", "n", "e", "e", "z", "u", "s", "t", "a", "n", "d">>>>,
     last_snowfall |-> <<
        \* Derni(U+00E8)re chute de neige R(U+00E9)gion
        <<"D", "e", "r", "n", "i", "U+00E8", "r", "e", " ", "c", "h", "u",
          "t", "e", " ", "d", "e", " ", "n", "e", "i", "g", "e", " ", "R",
          "U+00E9", "g", "i", "o", "n">>,
        \* Latest snowfall Region
        <<"L", "a", "t", "e", "s", "t", " ", "s", "n", "o", "w", "f", "a",
          "l", "l", " ", "R", "e", "g", "i", "o", "n">>,
        \* Letzter Schneefall
        <<"L", "e", "t", "z", "t", "e", "r", " ", "S", "c", "h", "n", "e",
          "e", "f", "a", "l", "l">>>>,
     avalanche_warning |-> <<
        \* Niveau d(U+2019)alerte avalanches
        <<"N", "i", "v", "e", "a", "u", " ", "d", "U+2019", "a", "l", "e",
          "r", "t", "e", " ", "a", "v", "a", "l", "a", "n", "c", "h", "e",
          "s">>,
        \* Avalanche alert level
        <<"A", "v", "a", "l", "a", "n", "c", "h", "e", " ", "a", "l", "e",
          "r", "t", " ", "l", "e", "v", "e", "l">>,
        \* Lawinenwarnstufe
        <<"L", "a", "w", "i", "n", "e", "n", "w", "a", "r", "n", "s", "t",
          "u", "f", "e">>>>,
     lifts |-> <<
        \* Remont(U+00E9)es ouvertes
        <<"R", "e", "m", "o", "n", "t", "U+00E9", "e", "s", " ", "o", "u",
          "v", "e", "r", "t", "e", "s">>,
        \* Open lifts
        <<"O", "p", "e", "n", " ", "l", "i", "f", "t", "s">>,
        \* Offene Lifte
        <<"O", "f", "f", "e", "n", "e", " ", "L", "i", "f", "t", "e">>>>,
     slopes |-> <<
        \* Pistes ouvertes
        <<"P", "i", "s", "t", "e", "s", " ", "o", "u", "v", "e", "r", "t",
          "e", "s">>,
        \* Open pistes
        <<"O", "p", "e", "n", " ", "p", "i", "s", "t", "e", "s">>,
        \* Offene Pisten
        <<"O", "f", "f", "e", "n", "e", " ", "P", "i", "s", "t", "e", "n">>>>,
     slope_condition |-> <<
        \* (U+00C9)tat de la piste
        <<"U+00C9", "t", "a", "t", " ", "d", "e", " ", "l", "a", " ", "p",
          "i", "s", "t", "e">>,
        \* Piste conditions
        <<"P", "i", "s", "t", "e", " ", "c", "o", "n", "d", "i", "t", "i",
          "o", "n", "s">>,
        \* Pistenzustand
        <<"P", "i", "s", "t", "e", "n", "z", "u", "s", "t", "a", "n", "d">>>>,
     mountain |-> <<
        \* Sommet
        <<"S", "o", "m", "m", "e", "t">>,
        \* Mountain
        <<"M", "o", "u", "n", "t", "a", "i", "n">>,
        \* Berg
        <<"B", "e", "r", "g">>>>,
     valley |-> <<
        \* Vall(U+00E9)e
        <<"V", "a", "l", "l", "U+00E9", "e">>,
        \* Valley
        <<"V", "a", "l", "l", "e", "y">>,
        \* Tal
        <<"T", "a", "l">>>>,
     snow_height |-> <<
        \* Hauteur de neige
        <<"H", "a", "u", "t", "e", "u", "r", " ", "d", "e", " ", "n", "e",
          "i", "g", "e">>,
        \* Snow depth
        <<"S", "n", "o", "w", " ", "d", "e", "p", "t", "h">>,
        \* Schneeh(U+00F6)he
        <<"S", "c", "h", "n", "e", "e", "h", "U+00F6", "h", "e">>>>
    ]

LAWINENWARNDIENST ==
    <<"L", "a", "w", "i", "n", "e", "n", "w", "a", "r", "n", "d", "i", "e", "n", "s", "t">>

\* the dictionary d with d[k] = v
Put(d, k, v) == [x \in DOMAIN d \cup {k} |-> IF x = k THEN v ELSE d[x]]

EmptyDict == [x \in {} |-> None]

\* the truth value of an str | None
Truthy(v) == v.t = "str" /\ v.v # <<>>

\* soup.find(tag, class_=class): the index of the first such node, 0 for
\* None; class "" stands for no class_ argument
FindNode(soup, tag, class) ==
    LET hits == {i \in 1..Len(soup) :
                    /\ soup[i].tag = tag
                    /\ class # "" => soup[i].class = class}
    IN  IF hits = {} THEN 0 ELSE Least(hits)

\* soup.find("dt", string=lambda t: t and label in t)
FindDt(soup, label) ==
    LET hits == {i \in 1..Len(soup) :
                    /\ soup[i].tag = "dt"
                    /\ soup[i].text # <<>>
                    /\ Contains(label, soup[i].text)}
    IN  IF hits = {} THEN 0 ELSE Least(hits)

\* soup[i].find_next_sibling("dd", class_=class)
FindNextSiblingDd(soup, i, class) ==
    LET hits == {j \in (i + 1)..Len(soup) :
                    /\ soup[j].tag = "dd"
                    /\ class # "" => soup[j].class = class}
    IN  IF hits = {} THEN 0 ELSE Least(hits)

\* the loop of get_text_for_labels from the k-th label on
RECURSIVE LabelLoop(_, _, _)
LabelLoop(soup, labels, k) ==
    LET dt == FindDt(soup, labels[k])
        dd == FindNextSiblingDd(soup, dt, "")
    IN  IF k > Len(labels) THEN None
        ELSE IF dt # 0 /\ dd # 0 THEN StrV(Strip(soup[dd].text))
        ELSE LabelLoop(soup, labels, k + 1)

get_text_for_labels(soup, labels) == LabelLoop(soup, labels, 1)

(***************************************************************************)
(* parse_resort_page, section by section                                   *)
(***************************************************************************)

ResortName(soup, data) ==
    LET h1 == FindNode(soup, "h1", "")
    IN  IF h1 # 0 THEN Put(data, "resort_name", StrV(Strip(soup[h1].text)))
        ELSE data

\* dd.text.replace("cm", "").strip() of the dd.big that follows node i
BigValue(soup, i) ==
    LET dd == FindNextSiblingDd(soup, i, "big")
    IN  IF dd = 0 THEN None ELSE StrV(Strip(Replace(soup[dd].text, CM, <<>>)))

\* any(k in text for k in LABELS[category])
AnyLabelIn(category, text) ==
    \E k \in 1..Len(LABELS[category]) : Contains(LABELS[category][k], text)

\* the body of the loop over the dt.big nodes, for node i
SnowDepthStep(soup, data, i) ==
    LET text == Strip(soup[i].text)
        v == BigValue(soup, i)
        d1 == IF AnyLabelIn("mountain", text) /\ v # None
              THEN Put(data, "snow_mountain", v) ELSE data
        d2 == IF AnyLabelIn("valley", text) /\ v # None
              THEN Put(d1, "snow_valley", v) ELSE d1
        d3 == IF /\ AnyLabelIn("snow_height", text)
                 /\ "snow_valley" \notin DOMAIN d2
                 /\ v # None
              THEN Put(d2, "snow_valley", v) ELSE d2
    IN  d3

\* for dt in soup.find_all("dt", class_="big"), from node i on
RECURSIVE SnowDepths(_, _, _)
SnowDepths(soup, data, i) ==
    IF i > Len(soup) THEN data
    ELSE IF soup[i].tag = "dt" /\ soup[i].class = "big"
    THEN SnowDepths(soup, SnowDepthStep(soup, data, i), i + 1)
    ELSE SnowDepths(soup, data, i + 1)

TextualInfo(soup, data) ==
    LET sc == get_text_for_labels(soup, LABELS.snow_condition)
        ls == get_text_for_labels(soup, LABELS.last_snowfall)
        aw == get_text_for_labels(soup, LABELS.avalanche_warning)
        d1 == IF Truthy(sc) THEN Put(data, "snow_condition", sc) ELSE data
        d2 == IF Truthy(ls) THEN Put(d1, "last_snowfall", ls) ELSE d1
        d3 == IF Truthy(aw)
              THEN Put(d2, "avalanche_warning",
                       StrV(Strip(Replace(aw.v, LAWINENWARNDIENST, <<>>))))
              ELSE d2
    IN  d3

\* the lifts section: the open count is stored before the total count is
\* parsed; any exception of the try block is caught
Lifts(soup, data) ==
    LET v == get_text_for_labels(soup, LABELS.lifts)
        parts == ReSplitVonOf(v.v)
        open == PyInt(Strip(parts[1]))
        words == Split(Strip(parts[2]))
        total == IF words = <<>> THEN Raise("IndexError") ELSE PyInt(words[1])
    IN  IF ~(Truthy(v) /\ (Contains(VON, v.v) \/ Contains(OF, v.v)))
        THEN data
        ELSE IF open.kind = "raise" THEN data
        ELSE IF total.kind = "raise"
        THEN Put(data, "lifts_open_count", IntV(open.value))
        ELSE Put(Put(data, "lifts_open_count", IntV(open.value)),
                 "lifts_total_count", IntV(total.value))

\* the slopes section; neither the float() nor the int() of a token is
\* guarded: float() raises for a token that is no number, int() for a run
\* of more than 4300 digits
Slopes(soup, data) ==
    LET v == get_text_for_labels(soup, LABELS.slopes)
        kms == FindAll(Digits \cup {",", "."}, v.v)
        f1 == PyFloat(Replace(kms[1], <<",">>, <<".">>))
        f2 == PyFloat(Replace(kms[2], <<",">>, <<".">>))
        nums == FindAll(Digits, v.v)
        i1 == PyInt(nums[1])
        i2 == PyInt(nums[2])
        k1 == IF Len(kms) >= 1 THEN Put(data, "slopes_open_km", f1.value)
              ELSE data
        k2 == IF Len(kms) >= 2 THEN Put(k1, "slopes_total_km", f2.value)
              ELSE k1
        n1 == IF Len(nums) >= 1
              THEN Put(data, "slopes_open_count", IntV(i1.value))
              ELSE data
        n2 == IF Len(nums) >= 2
              THEN Put(n1, "slopes_total_count", IntV(i2.value))
              ELSE n1
    IN  IF ~Truthy(v) THEN Return(data)
        ELSE IF Contains(KM, v.v)
        THEN (IF Len(kms) >= 1 /\ f1.kind = "raise" THEN f1
              ELSE IF Len(kms) >= 2 /\ f2.kind = "raise" THEN f2
              ELSE Return(k2))
        ELSE (IF Len(nums) >= 1 /\ i1.kind = "raise" THEN i1
              ELSE IF Len(nums) >= 2 /\ i2.kind = "raise" THEN i2
              ELSE Return(n2))

SlopeCondition(soup, data) ==
    LET v == get_text_for_labels(soup, LABELS.slope_condition)
    IN  IF Truthy(v) THEN Put(data, "slope_condition", v) ELSE data

\* LastUpdate with the time of the call stored for a text that does not
\* parse
LastUpdate_FallsBackToNow(soup, data, nw) ==
    LET sub == FindNode(soup, "div", "h2-sub")
        Stored(dt) ==
            IF dt.kind = "raise" THEN dt
            ELSE IF dt.value # None
            THEN Return(Put(data, "last_update", dt.value))
            ELSE Return(Put(data, "last_update", DateV(nw)))
    IN  IF sub = 0 THEN Return(data)
        ELSE Stored(parse_bergfex_datetime(Strip(soup[sub].text), nw))

\* the last update section: the parsed timestamp is stored, a text that
\* does not parse stores nothing; the parser's exception is not caught
LastUpdate(soup, data, nw) ==
    LET sub == FindNode(soup, "div", "h2-sub")
        Stored(dt) ==
            IF dt.kind = "raise" THEN dt
            ELSE IF dt.value # None
            THEN Return(Put(data, "last_update", dt.value))
            ELSE Return(data)
    IN  IF sub = 0 THEN Return(data)
        ELSE Stored(parse_bergfex_datetime(Strip(soup[sub].text), nw))

\* Status with the comparison weakened: "Open" from a count of 0 on
Status_OpenFromZero(data) ==
    LET n == IF "lifts_open_count" \in DOMAIN data
             THEN data["lifts_open_count"].v ELSE 0
    IN  Put(data, "status", StrV(IF n >= 0 THEN <<"O", "p", "e", "n">>
                                 ELSE <<"C", "l", "o", "s", "e", "d">>))

Status(data) ==
    LET n == IF "lifts_open_count" \in DOMAIN data
             THEN data["lifts_open_count"].v ELSE 0
    IN  Put(data, "status", StrV(IF n > 0 THEN <<"O", "p", "e", "n">>
                                 ELSE <<"C", "l", "o", "s", "e", "d">>))

\* the values the final comprehension drops
Dropped == {StrV(<<>>), StrV(<<"-">>), None}

\* Prune without the dash among the dropped values
Prune_KeepsDash(data) ==
    [k \in {x \in DOMAIN data : data[x] \notin {StrV(<<>>), None}} |-> data[k]]

Prune(data) ==
    [k \in {x \in DOMAIN data : data[x] \notin Dropped} |-> data[k]]

\* the sections run in the order of the code; an exception of the slopes
\* or of the last update section ends the call
parse_resort_page(html, nw) ==
    LET d1 == ResortName(html, EmptyDict)
        d2 == SnowDepths(html, d1, 1)
        d3 == TextualInfo(html, d2)
        d4 == Lifts(html, d3)
        Finished(r7) ==
            IF r7.kind = "raise" THEN r7
            ELSE Return(Prune(Status(r7.value)))
        AfterSlopes(r5) ==
            IF r5.kind = "raise" THEN r5
            ELSE Finished(LastUpdate(html, SlopeCondition(html, r5.value), nw))
    IN  AfterSlopes(Slopes(html, d4))

(***************************************************************************)
(* parse_snow_forecast_images(html, page_num).  A forecast page is the     *)
(* sequence of its gallery containers; a container is the href and the     *)
(* data-caption of its link.                                               *)
(***************************************************************************)

\* parse_snow_forecast_images without the test of the page number
parse_snow_forecast_images_AnyPage(html, page_num) ==
    LET d0 == EmptyDict
        d1 == IF Len(html) >= 1
              THEN Put(Put(d0, "daily_forecast_url", StrV(html[1].href)),
                       "daily_caption", StrV(html[1].caption))
              ELSE d0
        d2 == IF Len(html) >= 2
              THEN Put(Put(d1, "twelve_hour_forecast_url", StrV(html[2].href)),
                       "twelve_hour_caption", StrV(html[2].caption))
              ELSE d1
        d3 == IF Len(html) >= 3
              THEN Put(Put(d2, "summary_url", StrV(html[3].href)),
                       "summary_caption", StrV(html[3].caption))
              ELSE d2
    IN  Return(d3)

parse_snow_forecast_images(html, page_num) ==
    LET d0 == EmptyDict
        d1 == IF Len(html) >= 1
              THEN Put(Put(d0, "daily_forecast_url", StrV(html[1].href)),
                       "daily_caption", StrV(html[1].caption))
              ELSE d0
        d2 == IF Len(html) >= 2
              THEN Put(Put(d1, "twelve_hour_forecast_url", StrV(html[2].href)),
                       "twelve_hour_caption", StrV(html[2].caption))
              ELSE d1
        d3 == IF page_num # 0 /\ Len(html) >= 3
              THEN Put(Put(d2, "summary_url", StrV(html[3].href)),
                       "summary_caption", StrV(html[3].caption))
              ELSE d2
    IN  Return(d3)

(***************************************************************************)
(* Inputs: the texts, pages and clock readings the parsers are run on      *)
(***************************************************************************)

\* the largest number of lifts a generated lifts text names
MaxLifts == 2

\* the largest number of gallery containers of a forecast page
MaxImages == 3

\* the largest forecast page number
MaxPage == 1

\* the largest number of calls the caller makes on one input
MaxCalls == 2

\* str(n), n >= 0
RECURSIVE Dec(_)
Dec(n) ==
    IF n < 10 THEN <<Chr(48 + n)>>
    ELSE Dec(n \div 10) \o <<Chr(48 + (n % 10))>>

\* "%02d" % n
Dec2(n) == IF n < 10 THEN <<"0">> \o Dec(n) ELSE Dec(n)

\* "Aujourd'hui"
T_AUJOURDHUI ==
    <<"A", "u", "j", "o", "u", "r", "d", "'", "h", "u", "i">>

\* "Today"
T_TODAY ==
    <<"T", "o", "d", "a", "y">>

\* "Heute"
T_HEUTE ==
    <<"H", "e", "u", "t", "e">>

\* "Hier"
T_HIER ==
    <<"H", "i", "e", "r">>

\* "Yesterday"
T_YESTERDAY ==
    <<"Y", "e", "s", "t", "e", "r", "d", "a", "y">>

\* "Gestern"
T_GESTERN ==
    <<"G", "e", "s", "t", "e", "r", "n">>

\* "updated soon"
T_SOON ==
    <<"u", "p", "d", "a", "t", "e", "d", " ", "s", "o", "o", "n">>

\* "05.11.0000, 14:40"
T_YEAR0 ==
    <<"0", "5", ".", "1", "1", ".", "0", "0", "0", "0", ",", " ", "1",
      "4", ":", "4", "0">>

\* "Today 05.11.2025, 14:40"
T_TODAY_DATE ==
    <<"T", "o", "d", "a", "y", " ", "0", "5", ".", "1", "1", ".", "2",
      "0", "2", "5", ",", " ", "1", "4", ":", "4", "0">>

\* "  5.11. 2025 9:05 "
T_SPACED ==
    <<" ", " ", "5", ".", "1", "1", ".", " ", "2", "0", "2", "5", " ",
      "9", ":", "0", "5", " ">>

\* "Stand 105.11.2025. 14:40 Uhr"
T_LONGDAY ==
    <<"S", "t", "a", "n", "d", " ", "1", "0", "5", ".", "1", "1", ".",
      "2", "0", "2", "5", ".", " ", "1", "4", ":", "4", "0", " ", "U",
      "h", "r">>

\* "05.11.(U+00A0)2025,(U+00A0)14:40": no-break spaces
T_NBSP ==
    <<"0", "5", ".", "1", "1", ".", "U+00A0", "2", "0", "2", "5", ",",
      "U+00A0", "1", "4", ":", "4", "0">>

\* "HEUTE, 14:40" with the time in Arabic-Indic digits
T_ARABIC ==
    <<"H", "E", "U", "T", "E", ",", " ", "U+0661", "U+0664", ":", "U+0664",
      "U+0660">>

\* "L(U+00E9)lex - Crozet"
T_LELEX ==
    <<"L", "U+00E9", "l", "e", "x", " ", "-", " ", "C", "r", "o", "z",
      "e", "t">>

\* "Mountain"
T_MOUNTAIN ==
    <<"M", "o", "u", "n", "t", "a", "i", "n">>

\* "Valley"
T_VALLEY ==
    <<"V", "a", "l", "l", "e", "y">>

\* "Snow depth"
T_SNOWDEPTH ==
    <<"S", "n", "o", "w", " ", "d", "e", "p", "t", "h">>

\* "Berg"
T_BERG ==
    <<"B", "e", "r", "g">>

\* "Tal"
T_TAL ==
    <<"T", "a", "l">>

\* "15cm"
T_15CM ==
    <<"1", "5", "c", "m">>

\* " 5 cm "
T_5CM ==
    <<" ", "5", " ", "c", "m", " ">>

\* "40 cm"
T_40CM ==
    <<"4", "0", " ", "c", "m">>

\* "Snow condition"
T_SNOWCOND ==
    <<"S", "n", "o", "w", " ", "c", "o", "n", "d", "i", "t", "i", "o", "n">>

\* "Powder"
T_POWDER ==
    <<"P", "o", "w", "d", "e", "r">>

\* "Lawinenwarnstufe"
T_LWS ==
    <<"L", "a", "w", "i", "n", "e", "n", "w", "a", "r", "n", "s", "t",
      "u", "f", "e">>

\* "3 Lawinenwarndienst"
T_LWD3 ==
    <<"3", " ", "L", "a", "w", "i", "n", "e", "n", "w", "a", "r", "n",
      "d", "i", "e", "n", "s", "t">>

\* "Open lifts"
T_OPENLIFTS ==
    <<"O", "p", "e", "n", " ", "l", "i", "f", "t", "s">>

\* "Offene Lifte"
T_OFFENELIFTE ==
    <<"O", "f", "f", "e", "n", "e", " ", "L", "i", "f", "t", "e">>

\* "Open pistes"
T_OPENPISTES ==
    <<"O", "p", "e", "n", " ", "p", "i", "s", "t", "e", "s">>

\* "Piste conditions"
T_PISTECOND ==
    <<"P", "i", "s", "t", "e", " ", "c", "o", "n", "d", "i", "t", "i",
      "o", "n", "s">>

\* "groomed"
T_GROOMED ==
    <<"g", "r", "o", "o", "m", "e", "d">>

\* "8 von 10"
T_8VON10 ==
    <<"8", " ", "v", "o", "n", " ", "1", "0">>

\* "8 of ten"
T_8OFTEN ==
    <<"8", " ", "o", "f", " ", "t", "e", "n">>

\* "x of 10"
T_XOF10 ==
    <<"x", " ", "o", "f", " ", "1", "0">>

\* "8 of"
T_8OF ==
    <<"8", " ", "o", "f">>

\* "of 10"
T_OF10 ==
    <<"o", "f", " ", "1", "0">>

\* "8"
T_8 ==
    <<"8">>

\* " 8 of 10 lifts"
T_8OF10LIFTS ==
    <<" ", "8", " ", "o", "f", " ", "1", "0", " ", "l", "i", "f", "t", "s">>

\* "8(U+00A0)of(U+00A0)10(U+00A0)lifts": no-break spaces
T_8OF10NBSP ==
    <<"8", "U+00A0", "o", "f", "U+00A0", "1", "0", "U+00A0", "l", "i", "f",
      "t", "s">>

\* "-1 of 3"
T_NEG ==
    <<"-", "1", " ", "o", "f", " ", "3">>

\* "0 of x"
T_0OFX ==
    <<"0", " ", "o", "f", " ", "x">>

\* "3,5 km of 10.50 km"
T_KM2 ==
    <<"3", ",", "5", " ", "k", "m", " ", "o", "f", " ", "1", "0", ".",
      "5", "0", " ", "k", "m">>

\* "3,5(U+00A0)km" with fullwidth digits
T_KMWIDE ==
    <<"U+FF13", ",", "U+FF15", "U+00A0", "k", "m">>

\* "12 km"
T_KM1 ==
    <<"1", "2", " ", "k", "m">>

\* "1.2.3 km of 10 km"
T_KMDOTS ==
    <<"1", ".", "2", ".", "3", " ", "k", "m", " ", "o", "f", " ", "1",
      "0", " ", "k", "m">>

\* "3,5 of 10 km."
T_KMSTOP ==
    <<"3", ",", "5", " ", "o", "f", " ", "1", "0", " ", "k", "m", ".">>

\* "km"
T_KMNONE ==
    <<"k", "m">>

\* "12 of 20"
T_COUNT2 ==
    <<"1", "2", " ", "o", "f", " ", "2", "0">>

\* "open"
T_COUNT0 ==
    <<"o", "p", "e", "n">>

\* the wall clock readings, in the order they are passed
Clock ==
    <<DateTime(2024, 3, 1, 0, 5, 0, 0),
      DateTime(2025, 5, 9, 14, 39, 59, 0),
      DateTime(2025, 5, 9, 14, 40, 0, 0),
      DateTime(2025, 11, 5, 15, 0, 0, 0),
      DateTime(2026, 1, 1, 0, 30, 12, 500000)>>

Days == {5, 29, 31}
Months == {2, 11, 12}
Years == {0, 2024, 2025}      \* 0: the text names no year
Times == {<<14, 40>>, <<9, 5>>, <<25, 0>>, <<14, 75>>}
Formats == {"dd.mm.", "d.m"}

\* an absolute date text.  "dd.mm.": the site's form, "05.11.2025, 14:40"
\* and "05.11., 14:40".  "d.m": no leading zeros and a dot only between the
\* numbers, "5.11.2025, 14:40" and "5.11, 14:40".
AbsText(d, m, y, tm, f) ==
    IF f = "dd.mm."
    THEN Dec2(d) \o <<".">> \o Dec2(m) \o <<".">>
           \o (IF y = 0 THEN <<>> ELSE Dec(y))
           \o <<",", " ">> \o Dec2(tm[1]) \o <<":">> \o Dec2(tm[2])
    ELSE Dec(d) \o <<".">> \o Dec(m)
           \o (IF y = 0 THEN <<>> ELSE <<".">> \o Dec(y))
           \o <<",", " ">> \o Dec(tm[1]) \o <<":">> \o Dec2(tm[2])

AbsTexts ==
    {AbsText(d, m, y, tm, f) :
        d \in Days, m \in Months, y \in Years, tm \in Times, f \in Formats}

RelWords ==
    {T_AUJOURDHUI, T_TODAY, T_HEUTE, T_HIER, T_YESTERDAY, T_GESTERN}

\* a relative date text, "Today, 14:40"
RelText(w, tm) == w \o <<",", " ">> \o Dec(tm[1]) \o <<":">> \o Dec2(tm[2])

RelTexts == {RelText(w, tm) : w \in RelWords, tm \in Times}

OtherTexts ==
    {<<>>, <<"-">>, T_TODAY, T_SOON, T_YEAR0, T_TODAY_DATE, T_SPACED,
     T_LONGDAY, T_NBSP, T_ARABIC}

DateTexts == AbsTexts \cup RelTexts \cup OtherTexts

\* a label/value pair of the page's list
Pair(class, label, value) ==
    <<Node("dt", class, label), Node("dd", class, value)>>

H1s == {<<>>, <<Node("h1", "", T_LELEX)>>, <<Node("h1", "", <<" ">>)>>}

Subtitle(text) == <<Node("div", "h2-sub", text)>>

SubTexts ==
    {AbsText(5, 11, 2025, <<14, 40>>, "dd.mm."),
     AbsText(5, 11, 0, <<14, 40>>, "dd.mm."),
     AbsText(31, 11, 2025, <<14, 40>>, "dd.mm."),
     AbsText(5, 11, 0, <<14, 40>>, "d.m"),
     RelText(T_TODAY, <<14, 40>>),
     RelText(T_HIER, <<9, 5>>),
     RelText(T_HEUTE, <<25, 0>>),
     T_SOON, <<"-">>, <<>>}

Subs == {<<>>} \cup {Subtitle(t) : t \in SubTexts}

Bigs ==
    {<<>>,
     Pair("big", T_MOUNTAIN, T_15CM) \o Pair("big", T_VALLEY, T_5CM),
     Pair("big", T_BERG, <<"-">>) \o Pair("big", T_TAL, CM),
     Pair("big", T_SNOWDEPTH, T_40CM) \o Pair("big", T_VALLEY, T_5CM),
     Pair("big", T_VALLEY, <<"-">>) \o Pair("big", T_SNOWDEPTH, T_40CM),
     <<Node("dt", "big", T_MOUNTAIN), Node("dd", "", T_15CM)>>
       \o Pair("big", T_SNOWDEPTH, T_40CM)}

Infos ==
    {<<>>,
     Pair("", T_SNOWCOND, T_POWDER) \o Pair("", T_PISTECOND, T_GROOMED),
     Pair("", T_SNOWCOND, <<"-">>) \o Pair("", T_LWS, LAWINENWARNDIENST),
     Pair("", T_LWS, T_LWD3) \o Pair("", T_PISTECOND, <<" ">>),
     <<Node("dt", "", T_SNOWCOND)>> \o Pair("", T_LWS, T_POWDER)}

\* a lifts text "a of b"
LiftText(a, b) == Dec(a) \o <<" ">> \o OF \o <<" ">> \o Dec(b)

LiftTexts ==
    {LiftText(a, b) : a \in 0..MaxLifts, b \in 0..MaxLifts}
      \cup {T_8VON10, T_8OFTEN, T_XOF10, T_8OF, T_OF10, T_8, T_8OF10LIFTS,
            T_8OF10NBSP, T_NEG, T_0OFX, <<"-">>, <<>>}

LiftPairs ==
    {<<>>} \cup {Pair("", T_OPENLIFTS, t) : t \in LiftTexts}
           \cup {Pair("", T_OFFENELIFTE, T_8VON10)}

SlopeTexts ==
    {T_KM2, T_KMWIDE, T_KM1, T_KMDOTS, T_KMSTOP, T_KMNONE, T_COUNT2,
     T_COUNT0, <<"-">>}

SlopePairs == {<<>>} \cup {Pair("", T_OPENPISTES, t) : t \in SlopeTexts}

\* the new-snow widget: a heading and a value with its unit
NewSnow(text) == <<Node("div", "new-snow", text)>>

Widgets == {<<>>, NewSnow(T_15CM), NewSnow(<<>>)}

Page(h1, sub, big, info, lifts, slopes, widget) ==
    h1 \o sub \o widget \o big \o info \o lifts \o slopes

\* the page of the resort Lelex - Crozet: 8 of 10 lifts open
BaseH1 == <<Node("h1", "", T_LELEX)>>
BaseSub == Subtitle(AbsText(5, 11, 2025, <<14, 40>>, "dd.mm."))
BaseBig == Pair("big", T_MOUNTAIN, T_15CM) \o Pair("big", T_VALLEY, T_5CM)
BaseLifts == Pair("", T_OPENLIFTS, T_8OF10LIFTS)

\* the base page with one or two of its parts varied
Pages ==
    {Page(h, BaseSub, b, <<>>, BaseLifts, <<>>, w) :
        h \in H1s, b \in Bigs, w \in Widgets}
      \cup {Page(BaseH1, BaseSub, BaseBig, i, BaseLifts, s, <<>>) :
               i \in Infos, s \in SlopePairs}
      \cup {Page(BaseH1, u, <<>>, <<>>, l, <<>>, <<>>) :
               u \in Subs, l \in LiftPairs}
      \cup {Page(<<>>, u, <<>>, <<>>, <<>>, s, NewSnow(T_15CM)) :
               u \in Subs, s \in SlopePairs}

Image(n) == [href |-> <<"u", Chr(48 + n)>>,
             caption |-> <<"c", Chr(48 + n)>>]

\* the forecast pages: 0..MaxImages containers
Galleries == {[i \in 1..n |-> Image(i)] : n \in 0..MaxImages}

\* the pages label resolution is run on: none, one or two label elements
\* of the lifts category, in every order of the variants, with and without
\* a value element, and after a label element of another category
LabelPages ==
    {<<>>, Pair("", T_SNOWCOND, T_POWDER)}
      \cup {Pair("", LABELS.lifts[a], T_8VON10) : a \in 1..3}
      \cup {<<Node("dt", "", LABELS.lifts[a])>> : a \in 1..3}
      \cup {Pair("", LABELS.lifts[a], T_8VON10)
              \o Pair("", LABELS.lifts[b], LiftText(0, MaxLifts)) :
               a \in 1..3, b \in 1..3}
      \cup {Pair("", T_SNOWCOND, T_POWDER)
              \o Pair("big", LABELS.lifts[a], T_8OF10LIFTS) : a \in 1..3}

\* the arguments of get_text_for_labels
LabelArgs ==
    {[soup |-> p, labels |-> LABELS[c]] :
        p \in LabelPages, c \in {"lifts", "snow_condition"}}

(***************************************************************************)
(* The caller: it holds one input and calls the parser on it, again and    *)
(* again as time passes.                                                   *)
(***************************************************************************)

Init ==
    /\ now \in 1..Len(Clock)
    /\ rets = <<>>
    /\ \/ call = "parse_resort_page" /\ arg \in Pages
       \/ call = "parse_bergfex_datetime" /\ arg \in DateTexts
       \/ /\ call = "parse_snow_forecast_images"
          /\ arg \in {[html |-> g, page_num |-> n] :
                         g \in Galleries, n \in 0..MaxPage}
       \/ call = "get_text_for_labels" /\ arg \in LabelArgs

\* a call's outcome, with the clock reading it was made at
Called(out) == rets' = Append(rets, [at |-> now, out |-> out])

CallParseResortPage ==
    /\ call = "parse_resort_page"
    /\ Len(rets) < MaxCalls
    /\ Called(parse_resort_page(arg, Clock[now]))
    /\ UNCHANGED <<call, arg, now>>

CallParseBergfexDatetime ==
    /\ call = "parse_bergfex_datetime"
    /\ Len(rets) < MaxCalls
    /\ Called(parse_bergfex_datetime(arg, Clock[now]))
    /\ UNCHANGED <<call, arg, now>>

CallParseSnowForecastImages ==
    /\ call = "parse_snow_forecast_images"
    /\ Len(rets) < MaxCalls
    /\ Called(parse_snow_forecast_images(arg.html, arg.page_num))
    /\ UNCHANGED <<call, arg, now>>

CallGetTextForLabels ==
    /\ call = "get_text_for_labels"
    /\ Len(rets) < MaxCalls
    /\ Called(Return(get_text_for_labels(arg.soup, arg.labels)))
    /\ UNCHANGED <<call, arg, now>>

\* time passes between two calls
Tick ==
    /\ rets # <<>>
    /\ Len(rets) < MaxCalls
    /\ \E n \in (now + 1)..Len(Clock) : now' = n
    /\ UNCHANGED <<call, arg, rets>>

Next ==
    \/ CallParseResortPage
    \/ CallParseBergfexDatetime
    \/ CallParseSnowForecastImages
    \/ CallGetTextForLabels
    \/ Tick

Spec == Init /\ [][Next]_vars

(***************************************************************************)
(* Properties                                                              *)
(***************************************************************************)

OPEN == StrV(<<"O", "p", "e", "n">>)
CLOSED == StrV(<<"C", "l", "o", "s", "e", "d">>)

\* the records parse_resort_page has returned so far
Records ==
    {rets[i].out.value : i \in {j \in 1..Len(rets) :
        call = "parse_resort_page" /\ rets[j].out.kind = "return"}}

Has(r, k) == k \in DOMAIN r

\* the trimmed texts of the page's subtitle elements
SubtitlesOf(page) ==
    {Strip(page[i].text) :
        i \in {j \in 1..Len(page) :
                 page[j].tag = "div" /\ page[j].class = "h2-sub"}}

\* C1: every call of parse_resort_page returns a record; none raises,
\* whatever the lifts, slopes and last-update texts of the page are.
C1_ResortPageNeverRaises ==
    call = "parse_resort_page" =>
        \A i \in 1..Len(rets) : rets[i].out.kind = "return"

\* C2: every returned record has a status, which is "Open" if and only if
\* the record holds a lifts_open_count greater than 0, and "Closed"
\* otherwise.
C2_StatusFromOpenLifts ==
    \A r \in Records :
        /\ Has(r, "status")
        /\ r["status"] \in {OPEN, CLOSED}
        /\ r["status"] = OPEN <=>
              (Has(r, "lifts_open_count") /\ r["lifts_open_count"].v > 0)

\* C2's case: a page whose lifts text gives only the open count, and a page
\* with none open, have been parsed to "Open" and to "Closed".
C2_Witness ==
    \E r \in Records :
        /\ r["status"] = OPEN
        /\ Has(r, "lifts_open_count")
        /\ ~Has(r, "lifts_total_count")

\* C3: no returned record holds the empty string, a lone dash or None.
C3_NoEmptyValues ==
    \A r \in Records : \A k \in DOMAIN r : r[k] \notin Dropped

\* C3's case: the page gives the mountain depth as "-" and the valley depth
\* as "cm", and the record returned for it has neither field.
C3_Witness ==
    /\ call = "parse_resort_page"
    /\ \E i \in 1..(Len(arg) - 1) :
          /\ arg[i] = Node("dt", "big", T_BERG)
          /\ arg[i + 1] = Node("dd", "big", <<"-">>)
    /\ \E r \in Records :
          ~Has(r, "snow_mountain") /\ ~Has(r, "snow_valley")

\* C4: parse_bergfex_datetime never raises: every call returns a timestamp
\* or None.
C4_DatetimeNeverRaises ==
    call = "parse_bergfex_datetime" =>
        \A i \in 1..Len(rets) : rets[i].out.kind = "return"

\* the reading of a text's day and month in year y lies more than 180 days
\* after the clock reading c
Over180DaysAhead(y, m, d, tm, c) ==
    LET ahead == ToOrdinal(y, m, d) - ToOrdinal(c.year, c.month, c.day)
        t == <<tm[1], tm[2], 0, 0>>
        ct == <<c.hour, c.minute, c.second, c.microsecond>>
    IN  \/ ahead > 180
        \/ /\ ahead = 180
           /\ \E k \in 1..4 :
                 t[k] > ct[k] /\ \A x \in 1..(k - 1) : t[x] = ct[x]

\* what C5 expects of the text of day d, month m, year y (0: none) and time
\* tm, parsed at the clock reading c
C5_Expected(d, m, y, tm, c) ==
    LET year == IF y # 0 THEN y
                ELSE IF Over180DaysAhead(c.year, m, d, tm, c)
                THEN c.year - 1 ELSE c.year
    IN  Return(DateV([year |-> year, month |-> m, day |-> d,
                      hour |-> tm[1], minute |-> tm[2],
                      second |-> 0, microsecond |-> 0,
                      tzinfo |-> "Europe/Paris"]))

\* the year the text is first read in
C5_Year(y, c) == IF y # 0 THEN y ELSE c.year

\* the absolute date texts, each with what it was written from
AbsInputs ==
    {[d |-> d, m |-> m, y |-> y, tm |-> tm, f |-> f,
      text |-> AbsText(d, m, y, tm, f)] :
        d \in Days, m \in Months, y \in Years, tm \in Times, f \in Formats}

\* C5 as stated: an absolute date text "D.M[.YYYY], H:MM" of a valid
\* calendar date (and time of day) parses to the written day, month, hour
\* and minute, in the written year or else the current year, rolled back by
\* one exactly when that reading is more than 180 days ahead.
C5_AbsoluteAsStated ==
    call = "parse_bergfex_datetime" =>
        \A a \in AbsInputs : \A i \in 1..Len(rets) :
            (/\ arg = a.text
             /\ DateOk(C5_Year(a.y, Clock[rets[i].at]), a.m, a.d)
             /\ TimeOk(a.tm[1], a.tm[2]))
            => rets[i].out = C5_Expected(a.d, a.m, a.y, a.tm, Clock[rets[i].at])

\* C5, amended: the same for the texts "D.M.[YYYY], H:MM", where a dot
\* follows the month also when no year is written; a text without a year
\* and without that dot parses to None.
C5_AbsoluteWithDot ==
    call = "parse_bergfex_datetime" =>
        \A a \in AbsInputs : \A i \in 1..Len(rets) :
            /\ (/\ arg = a.text
                /\ a.f = "dd.mm." \/ a.y # 0
                /\ DateOk(C5_Year(a.y, Clock[rets[i].at]), a.m, a.d)
                /\ TimeOk(a.tm[1], a.tm[2]))
               => rets[i].out
                    = C5_Expected(a.d, a.m, a.y, a.tm, Clock[rets[i].at])
            /\ (arg = a.text /\ a.f = "d.m" /\ a.y = 0)
               => rets[i].out = Return(None)

\* C5's case: "05.11., 14:40" read on 2025-05-09 at 14:39:59, more than 180
\* days before that day of 2025, is returned as 2024-11-05 14:40, and a
\* second later, exactly 180 days before, as 2025-11-05 14:40.
C5_Witness ==
    /\ call = "parse_bergfex_datetime"
    /\ arg = AbsText(5, 11, 0, <<14, 40>>, "dd.mm.")
    /\ Len(rets) = 2
    /\ rets[1].at = 2 /\ rets[1].out.value.v.year = 2024
    /\ rets[2].at = 3 /\ rets[2].out.value.v.year = 2025

\* C6: a page whose subtitle's trimmed text is not empty gives a record
\* with last_update: the parsed timestamp, or the raw trimmed text when the
\* text does not parse.  (A lone dash is left out: the final pruning would
\* drop it as a value.)
C6_LastUpdateKeptAsText ==
    call = "parse_resort_page" =>
        \A i \in 1..Len(rets) :
            LET sub == FindNode(arg, "div", "h2-sub")
                text == Strip(arg[sub].text)
                dt == parse_bergfex_datetime(text, Clock[rets[i].at])
                r == rets[i].out.value
            IN  (/\ sub # 0
                 /\ StrV(text) \notin Dropped
                 /\ rets[i].out.kind = "return")
                => /\ Has(r, "last_update")
                   /\ r["last_update"] =
                        (IF dt.value = None THEN StrV(text) ELSE dt.value)

\* C7: a page with the new-snow widget and a value in it gives a record
\* whose new_snow is that value without its unit.
C7_NewSnowFromWidget ==
    call = "parse_resort_page" =>
        \A i \in 1..Len(rets) : \A n \in 1..Len(arg) :
            (/\ arg[n].tag = "div" /\ arg[n].class = "new-snow"
             /\ arg[n].text # <<>>
             /\ rets[i].out.kind = "return")
            => /\ Has(rets[i].out.value, "new_snow")
               /\ rets[i].out.value["new_snow"] =
                    StrV(Strip(Replace(arg[n].text, CM, <<>>)))

\* C8: the forecast images hold the first container as the daily image and
\* the second as the 12-hour image for every page number, and the summary
\* keys if and only if the page number is not 0 and there is a third
\* container, which they then hold.
C8_SummaryOnlyPastPageZero ==
    call = "parse_snow_forecast_images" =>
        \A i \in 1..Len(rets) :
            LET r == rets[i].out.value
                g == arg.html
            IN  /\ rets[i].out.kind = "return"
                /\ Len(g) >= 1 =>
                      /\ Has(r, "daily_forecast_url")
                      /\ r["daily_forecast_url"] = StrV(g[1].href)
                      /\ Has(r, "daily_caption")
                      /\ r["daily_caption"] = StrV(g[1].caption)
                /\ Len(g) >= 2 =>
                      /\ Has(r, "twelve_hour_forecast_url")
                      /\ r["twelve_hour_forecast_url"] = StrV(g[2].href)
                      /\ Has(r, "twelve_hour_caption")
                      /\ r["twelve_hour_caption"] = StrV(g[2].caption)
                /\ Has(r, "summary_url") <=> (arg.page_num # 0 /\ Len(g) >= 3)
                /\ Has(r, "summary_caption") <=> Has(r, "summary_url")
                /\ Has(r, "summary_url") =>
                      /\ r["summary_url"] = StrV(g[3].href)
                      /\ r["summary_caption"] = StrV(g[3].caption)

\* C8's case: page 0 of a forecast with three containers has been parsed,
\* and the result has the daily image and no summary.
C8_Witness ==
    /\ call = "parse_snow_forecast_images"
    /\ arg.page_num = 0
    /\ Len(arg.html) >= 3
    /\ rets # <<>>
    /\ Has(rets[1].out.value, "daily_forecast_url")
    /\ ~Has(rets[1].out.value, "summary_url")

\* C9 as stated: all calls of parse_resort_page on one page have the same
\* outcome, whatever the clock reads at each.
C9_SameRecordAtAnyTime ==
    call = "parse_resort_page" =>
        \A i, j \in 1..Len(rets) : rets[i].out = rets[j].out

\* the last-update text is read against the clock: a today or yesterday
\* form with a time, or an absolute date without a year
ReadAgainstClock(text) ==
    LET s == Lower(Strip(text))
    IN  \/ /\ \E w \in TodayWords \cup YesterdayWords : StartsWith(s, w)
           /\ SearchTime(s).ok
        \/ SearchDate(s).ok /\ SearchDate(s).year = <<>>

\* the record r without its last_update
WithoutLastUpdate(r) == [k \in DOMAIN r \ {"last_update"} |-> r[k]]

\* C9, amended: all calls on one page have the same outcome at any clock
\* reading when the page's last-update text is absent, does not parse or is
\* an absolute date with its year; when it is a today or yesterday form or
\* an absolute date without a year, the records returned are equal in every
\* field but last_update.  (Two outcomes differ only for a text read
\* against the clock, and then two records differ only in last_update.)
C9_SameRecordButRelativeDates ==
    call = "parse_resort_page" =>
        \A i, j \in 1..Len(rets) :
            \/ rets[i].out = rets[j].out
            \/ /\ \E t \in SubtitlesOf(arg) : ReadAgainstClock(t)
               /\ (rets[i].out.kind = "return" /\ rets[j].out.kind = "return")
                     => WithoutLastUpdate(rets[i].out.value)
                          = WithoutLastUpdate(rets[j].out.value)

\* C9's case: the page dated "05.11.2025, 14:40" has been parsed at two
\* clock readings of different years, to the same timestamp.
C9_Witness ==
    /\ call = "parse_resort_page"
    /\ SubtitlesOf(arg) = {AbsText(5, 11, 2025, <<14, 40>>, "dd.mm.")}
    /\ Len(rets) = 2
    /\ Clock[rets[1].at].year # Clock[rets[2].at].year
    /\ rets[1].out.kind = "return"
    /\ Has(rets[1].out.value, "last_update")
    /\ rets[2].out = rets[1].out

\* C10: a record holds lifts_open_count and lifts_total_count together or
\* neither of them, and its status is "Closed" when it holds neither.
C10_LiftCountsTogether ==
    \A r \in Records :
        /\ Has(r, "lifts_open_count") <=> Has(r, "lifts_total_count")
        /\ ~Has(r, "lifts_open_count") => r["status"] = CLOSED

\* the label elements of the page whose text contains a variant of labels
MatchingLabels(soup, labels) ==
    {n \in 1..Len(soup) :
        /\ soup[n].tag = "dt"
        /\ \E k \in 1..Len(labels) : Contains(labels[k], soup[n].text)}

\* C11: label resolution returns the trimmed text of the value element
\* paired with the first label element, in document order, whose text
\* contains any variant of the category, whichever place that variant has
\* in the list; it returns None when no label element matches.  (Stated
\* for a first label element that has a value element after it.)
C11_FirstInDocumentWins ==
    call = "get_text_for_labels" =>
        \A i \in 1..Len(rets) :
            LET hits == MatchingLabels(arg.soup, arg.labels)
                dd == FindNextSiblingDd(arg.soup, Least(hits), "")
            IN  IF hits = {} THEN rets[i].out = Return(None)
                ELSE dd # 0 =>
                       rets[i].out = Return(StrV(Strip(arg.soup[dd].text)))

====
